---- MODULE Spec2Model ----
(***************************************************************************)
(* iron_cache: an in-memory key-value store (scalar, list and hash values, *)
(* lazy expiry) behind one tokio Mutex, with a dirty-flag gated snapshot   *)
(* routine run by a timer task and by the SAVE command.                    *)
(*                                                                         *)
(* The storage engine (src/src/storage.rs) is modelled as operators over a *)
(* Storage record; the tasks of src/src/main.rs (one per connection, the   *)
(* periodic snapshot task and the spawn_blocking writers) are modelled as  *)
(* processes whose steps are the stretches of code between two awaits.     *)
(***************************************************************************)
EXTENDS Integers, Sequences, FiniteSets, TLC

(***************************************************************************)
(* Bounds of the model.                                                    *)
(***************************************************************************)
MaxArgs == 2        \* longest argument list of one LPUSH / RPUSH / HDEL
MaxListLen == 2     \* a push that would make a list longer is not issued
MaxSecs == 1        \* largest EX argument a client sends
MaxClock == 1       \* the clock runs for this many seconds
MaxReqs == 2        \* requests the server reads from all connections in one run

Keys == {"k1", "k2"}
Values == {"a", "b"}
Fields == {"f", "g"}
Conns == {"c1", "c2"}

Timer == "timer"
Procs == Conns \cup {Timer}

(***************************************************************************)
(* Time.  SystemTime and Duration are counted in microseconds; as_millis()  *)
(* drops what is left of a millisecond.  The clock is read at the instants  *)
(* on a whole second and half a millisecond after one.                     *)
(***************************************************************************)
MsPerSec == 1000

UsPerMs == 1000

from_secs(secs) == secs * MsPerSec * UsPerMs

as_millis(t) == t \div UsPerMs

UsPerSec == MsPerSec * UsPerMs

HalfMs == UsPerMs \div 2

(***************************************************************************)
(* Widths.  u64 is modelled 20 bits wide and the i64 that counts the        *)
(* seconds of a SystemTime 11 bits wide, so that the two overflows of       *)
(* Storage::set lie within reach: the cast as_millis() as u64 keeps the     *)
(* low bits, and SystemTime + Duration panics past the last second.  The    *)
(* order of the real limits is kept: a duration can make the milliseconds   *)
(* overflow u64 long before the seconds overflow i64, and the parser's u64  *)
(* holds both.                                                             *)
(***************************************************************************)
U64 == 2^20

I64MaxSecs == 2^11 - 1

as_u64(n) == n % U64

\* The smallest duration whose millisecond count does not fit u64, and the
\* smallest that takes any SystemTime of the model past the last second.
WrapSecs == (U64 \div MsPerSec) + 1

PanicSecs == I64MaxSecs + 1

Instants == {from_secs(sec) + f : sec \in 0..MaxClock, f \in {0, HalfMs}}

(***************************************************************************)
(* Option<u64> / Option<Duration>: None, or the number itself.             *)
(***************************************************************************)
None == -1

(***************************************************************************)
(* Value, StoreValue, Storage.                                             *)
(***************************************************************************)
StringV(s) == [tag |-> "String", str |-> s, list |-> <<>>, hash |-> <<>>]
ListV(l) == [tag |-> "List", str |-> "", list |-> l, hash |-> <<>>]
HashV(h) == [tag |-> "Hash", str |-> "", list |-> <<>>, hash |-> h]

StoreValue(d, e) == [data |-> d, expiry |-> e]

Storage(d, b) == [data |-> d, dirty |-> b]

EmptyMap == [x \in {} |-> x]

MapInsert(m, k, v) == [x \in (DOMAIN m) \cup {k} |-> IF x = k THEN v ELSE m[x]]

MapRemove(m, k) == [x \in (DOMAIN m) \ {k} |-> m[x]]

new == Storage(EmptyMap, FALSE)

is_dirty(st) == st.dirty

clear_dirty_flag(st) == Storage(st.data, FALSE)

WRONGTYPE == "WRONGTYPE Operation against a key holding the wrong kind of value"

(***************************************************************************)
(* Results: Ok(v) or Some(v), Ok(None) or None, Err(msg); st is the        *)
(* storage after the call.                                                 *)
(***************************************************************************)
Ok(st, v) == [st |-> st, ok |-> TRUE, some |-> TRUE, val |-> v, err |-> ""]
OkNone(st) == [st |-> st, ok |-> TRUE, some |-> FALSE, val |-> None, err |-> ""]
Err(st, msg) == [st |-> st, ok |-> FALSE, some |-> FALSE, val |-> None, err |-> msg]

(***************************************************************************)
(* A set that forgets self.dirty = true.                                   *)
(***************************************************************************)
setNoDirty(st, key, value, expiry, now) ==
    LET expiry_timestamp ==
            IF expiry = None THEN None ELSE as_u64(as_millis(now + from_secs(expiry)))
    IN  Storage(MapInsert(st.data, key, StoreValue(StringV(value), expiry_timestamp)),
                st.dirty)

(***************************************************************************)
(* Storage::set.  now is SystemTime::now() since the epoch; expiry is None  *)
(* or a Duration of whole seconds.  SystemTime::now() + duration panics    *)
(* ("overflow when adding duration to instant") before anything is stored. *)
(***************************************************************************)
set_panics(expiry, now) ==
    expiry # None /\ (now + from_secs(expiry)) \div UsPerSec > I64MaxSecs

set(st, key, value, expiry, now) ==
    LET expiry_timestamp ==
            IF expiry = None THEN None ELSE as_u64(as_millis(now + from_secs(expiry)))
    IN  Storage(MapInsert(st.data, key, StoreValue(StringV(value), expiry_timestamp)),
                TRUE)

(***************************************************************************)
(* Storage::get: Some(the StoreValue), or None.                            *)
(***************************************************************************)
\* A get that reports an expired entry as absent and leaves it in the map.
getNoEvict(st, key, now) ==
    IF key \in DOMAIN st.data
    THEN IF st.data[key].expiry # None /\ as_u64(as_millis(now)) >= st.data[key].expiry
         THEN OkNone(st)
         ELSE Ok(st, st.data[key])
    ELSE OkNone(st)

get(st, key, now) ==
    IF key \in DOMAIN st.data
    THEN IF st.data[key].expiry # None /\ as_u64(as_millis(now)) >= st.data[key].expiry
         THEN OkNone(Storage(MapRemove(st.data, key), TRUE))
         ELSE Ok(st, st.data[key])
    ELSE OkNone(st)

(***************************************************************************)
(* Storage::remove.                                                        *)
(***************************************************************************)
\* A remove that marks the store dirty even when the key is absent.
removeAlwaysDirty(st, key) ==
    IF key \in DOMAIN st.data
    THEN Ok(Storage(MapRemove(st.data, key), TRUE), st.data[key])
    ELSE OkNone(Storage(st.data, TRUE))

remove(st, key) ==
    IF key \in DOMAIN st.data
    THEN Ok(Storage(MapRemove(st.data, key), TRUE), st.data[key])
    ELSE OkNone(st)

(***************************************************************************)
(* Storage::lpush / rpush.  entry().or_insert_with() creates an empty list *)
(* with no expiry only when the key is absent.                             *)
(***************************************************************************)
RECURSIVE push_front_all(_, _)
push_front_all(list, values) ==
    IF values = <<>> THEN list
    ELSE push_front_all(<<Head(values)>> \o list, Tail(values))

RECURSIVE push_back_all(_, _)
push_back_all(list, values) ==
    IF values = <<>> THEN list
    ELSE push_back_all(Append(list, Head(values)), Tail(values))

\* An lpush with no variant check: whatever the key holds becomes a list.
lpushClobber(st, key, values) ==
    LET old == IF key \in DOMAIN st.data /\ st.data[key].data.tag = "List"
               THEN st.data[key].data.list ELSE <<>>
        list == push_front_all(old, values)
    IN  Ok(Storage(MapInsert(st.data, key, StoreValue(ListV(list), None)), TRUE),
           Len(list))

\* An lpush that puts the arguments in front as one block, in argument order.
lpushInOrder(st, key, values) ==
    LET entry == IF key \in DOMAIN st.data THEN st.data[key]
                 ELSE StoreValue(ListV(<<>>), None)
    IN  IF entry.data.tag = "List"
        THEN LET list == values \o entry.data.list
             IN  Ok(Storage(MapInsert(st.data, key,
                                      StoreValue(ListV(list), entry.expiry)), TRUE),
                    Len(list))
        ELSE Err(st, WRONGTYPE)

lpush(st, key, values) ==
    LET entry == IF key \in DOMAIN st.data THEN st.data[key]
                 ELSE StoreValue(ListV(<<>>), None)
    IN  IF entry.data.tag = "List"
        THEN LET list == push_front_all(entry.data.list, values)
             IN  Ok(Storage(MapInsert(st.data, key,
                                      StoreValue(ListV(list), entry.expiry)), TRUE),
                    Len(list))
        ELSE Err(st, WRONGTYPE)

\* An rpush that pushes each argument at the front.
rpushFront(st, key, values) ==
    LET entry == IF key \in DOMAIN st.data THEN st.data[key]
                 ELSE StoreValue(ListV(<<>>), None)
    IN  IF entry.data.tag = "List"
        THEN LET list == push_front_all(entry.data.list, values)
             IN  Ok(Storage(MapInsert(st.data, key,
                                      StoreValue(ListV(list), entry.expiry)), TRUE),
                    Len(list))
        ELSE Err(st, WRONGTYPE)

\* An rpush that gives the list it creates an expiry.
rpushExpiring(st, key, values) ==
    LET entry == IF key \in DOMAIN st.data THEN st.data[key]
                 ELSE StoreValue(ListV(<<>>), 0)
    IN  IF entry.data.tag = "List"
        THEN LET list == push_back_all(entry.data.list, values)
             IN  Ok(Storage(MapInsert(st.data, key,
                                      StoreValue(ListV(list), entry.expiry)), TRUE),
                    Len(list))
        ELSE Err(st, WRONGTYPE)

rpush(st, key, values) ==
    LET entry == IF key \in DOMAIN st.data THEN st.data[key]
                 ELSE StoreValue(ListV(<<>>), None)
    IN  IF entry.data.tag = "List"
        THEN LET list == push_back_all(entry.data.list, values)
             IN  Ok(Storage(MapInsert(st.data, key,
                                      StoreValue(ListV(list), entry.expiry)), TRUE),
                    Len(list))
        ELSE Err(st, WRONGTYPE)

(***************************************************************************)
(* Storage::lrange: Ok(None) (key absent) or Ok(Some(selected elements)).  *)
(***************************************************************************)
Max(a, b) == IF a >= b THEN a ELSE b
Min(a, b) == IF a <= b THEN a ELSE b

\* An lrange whose max(0) binds to the else branch only: a negative index that
\* reaches before the head stays negative and, as usize, lies past the end.
lrangeNoClamp(st, key, start, stop) ==
    IF key \notin DOMAIN st.data THEN OkNone(st)
    ELSE IF st.data[key].data.tag # "List" THEN Err(st, WRONGTYPE)
    ELSE LET list == st.data[key].data.list
             len == Len(list)
             start0 == IF start < 0 THEN len + start ELSE Max(start, 0)
             stop0 == Max(IF stop < 0 THEN len + stop ELSE stop, 0)
         IN  IF start0 < 0 \/ start0 >= len \/ start0 > stop0
             THEN Ok(st, <<>>)
             ELSE LET stop1 == Min(stop0, len - 1)
                  IN  Ok(st, SubSeq(list, start0 + 1, stop1 + 1))

lrange(st, key, start, stop) ==
    IF key \notin DOMAIN st.data THEN OkNone(st)
    ELSE IF st.data[key].data.tag # "List" THEN Err(st, WRONGTYPE)
    ELSE LET list == st.data[key].data.list
             len == Len(list)
             start0 == Max(IF start < 0 THEN len + start ELSE start, 0)
             stop0 == Max(IF stop < 0 THEN len + stop ELSE stop, 0)
         IN  IF start0 >= len \/ start0 > stop0
             THEN Ok(st, <<>>)
             ELSE LET stop1 == Min(stop0, len - 1)
                  IN  Ok(st, SubSeq(list, start0 + 1, stop1 + 1))

(***************************************************************************)
(* Storage::hset / hget / hdel / hlen / hgetall.                           *)
(***************************************************************************)
\* An hset that keeps the value of a field that is already there.
hsetKeepsOld(st, key, field, value) ==
    LET entry == IF key \in DOMAIN st.data THEN st.data[key]
                 ELSE StoreValue(HashV(EmptyMap), None)
    IN  IF entry.data.tag = "Hash"
        THEN LET hash == entry.data.hash
                 result == IF field \in DOMAIN hash THEN 0 ELSE 1
                 kept == IF field \in DOMAIN hash THEN hash[field] ELSE value
             IN  Ok(Storage(MapInsert(st.data, key,
                                      StoreValue(HashV(MapInsert(hash, field, kept)),
                                                 entry.expiry)), TRUE),
                    result)
        ELSE Err(st, WRONGTYPE)

\* An hset that turns whatever the key holds into a mapping.
hsetConverts(st, key, field, value) ==
    LET entry == IF key \in DOMAIN st.data /\ st.data[key].data.tag = "Hash"
                 THEN st.data[key]
                 ELSE StoreValue(HashV(EmptyMap), None)
        hash == entry.data.hash
        result == IF field \in DOMAIN hash THEN 0 ELSE 1
    IN  Ok(Storage(MapInsert(st.data, key,
                             StoreValue(HashV(MapInsert(hash, field, value)),
                                        entry.expiry)), TRUE),
           result)

hset(st, key, field, value) ==
    LET entry == IF key \in DOMAIN st.data THEN st.data[key]
                 ELSE StoreValue(HashV(EmptyMap), None)
    IN  IF entry.data.tag = "Hash"
        THEN LET hash == entry.data.hash
                 result == IF field \in DOMAIN hash THEN 0 ELSE 1
             IN  Ok(Storage(MapInsert(st.data, key,
                                      StoreValue(HashV(MapInsert(hash, field, value)),
                                                 entry.expiry)), TRUE),
                    result)
        ELSE Err(st, WRONGTYPE)

\* An hget for which a field that is not in the mapping is an error.
hgetMissingIsError(st, key, field) ==
    IF key \notin DOMAIN st.data THEN OkNone(st)
    ELSE IF st.data[key].data.tag # "Hash" THEN Err(st, WRONGTYPE)
    ELSE LET hash == st.data[key].data.hash
         IN  IF field \in DOMAIN hash THEN Ok(st, hash[field]) ELSE Err(st, "no such field")

hget(st, key, field) ==
    IF key \notin DOMAIN st.data THEN OkNone(st)
    ELSE IF st.data[key].data.tag # "Hash" THEN Err(st, WRONGTYPE)
    ELSE LET hash == st.data[key].data.hash
         IN  IF field \in DOMAIN hash THEN Ok(st, hash[field]) ELSE OkNone(st)

RECURSIVE hdel_loop(_, _, _)
hdel_loop(hash, fields, deleted_count) ==
    IF fields = <<>> THEN [hash |-> hash, deleted_count |-> deleted_count]
    ELSE IF Head(fields) \in DOMAIN hash
         THEN hdel_loop(MapRemove(hash, Head(fields)), Tail(fields), deleted_count + 1)
         ELSE hdel_loop(hash, Tail(fields), deleted_count)

\* An hdel that sets self.dirty = true when it removed a field.
hdelDirty(st, key, fields) ==
    IF key \notin DOMAIN st.data THEN Ok(st, 0)
    ELSE IF st.data[key].data.tag # "Hash" THEN Err(st, WRONGTYPE)
    ELSE LET r == hdel_loop(st.data[key].data.hash, fields, 0)
         IN  Ok(Storage(MapInsert(st.data, key,
                                  StoreValue(HashV(r.hash), st.data[key].expiry)),
                        st.dirty \/ r.deleted_count > 0),
                r.deleted_count)

\* An hdel that counts every field it was given.
hdelCountsNamed(st, key, fields) ==
    IF key \notin DOMAIN st.data THEN Ok(st, 0)
    ELSE IF st.data[key].data.tag # "Hash" THEN Err(st, WRONGTYPE)
    ELSE LET r == hdel_loop(st.data[key].data.hash, fields, 0)
         IN  Ok(Storage(MapInsert(st.data, key,
                                  StoreValue(HashV(r.hash), st.data[key].expiry)),
                        st.dirty),
                Len(fields))

\* An hdel that removes the key with the last field of its mapping.
hdelDropsEmpty(st, key, fields) ==
    IF key \notin DOMAIN st.data THEN Ok(st, 0)
    ELSE IF st.data[key].data.tag # "Hash" THEN Err(st, WRONGTYPE)
    ELSE LET r == hdel_loop(st.data[key].data.hash, fields, 0)
         IN  IF DOMAIN r.hash = {}
             THEN Ok(Storage(MapRemove(st.data, key), st.dirty), r.deleted_count)
             ELSE Ok(Storage(MapInsert(st.data, key,
                                       StoreValue(HashV(r.hash), st.data[key].expiry)),
                             st.dirty),
                     r.deleted_count)

hdel(st, key, fields) ==
    IF key \notin DOMAIN st.data THEN Ok(st, 0)
    ELSE IF st.data[key].data.tag # "Hash" THEN Err(st, WRONGTYPE)
    ELSE LET r == hdel_loop(st.data[key].data.hash, fields, 0)
         IN  Ok(Storage(MapInsert(st.data, key,
                                  StoreValue(HashV(r.hash), st.data[key].expiry)),
                        st.dirty),
                r.deleted_count)

\* An hlen that marks the store dirty.
hlenDirty(st, key) ==
    IF key \notin DOMAIN st.data THEN Ok(st, 0)
    ELSE IF st.data[key].data.tag # "Hash" THEN Err(st, WRONGTYPE)
    ELSE Ok(Storage(st.data, TRUE), Cardinality(DOMAIN st.data[key].data.hash))

hlen(st, key) ==
    IF key \notin DOMAIN st.data THEN Ok(st, 0)
    ELSE IF st.data[key].data.tag # "Hash" THEN Err(st, WRONGTYPE)
    ELSE Ok(st, Cardinality(DOMAIN st.data[key].data.hash))

hgetall(st, key) ==
    IF key \notin DOMAIN st.data THEN OkNone(st)
    ELSE IF st.data[key].data.tag # "Hash" THEN Err(st, WRONGTYPE)
    ELSE Ok(st, st.data[key].data.hash)

(***************************************************************************)
(* Command (src/src/commands.rs) and the argument values clients send.     *)
(***************************************************************************)
ArgLists(S) == UNION {[1..n -> S] : n \in 1..MaxArgs}

Indices == (0 - MaxListLen)..MaxListLen

Expiries == {None} \cup (0..MaxSecs) \cup {WrapSecs, PanicSecs}

Get(k) == [op |-> "Get", key |-> k]
Set(k, v, e) == [op |-> "Set", key |-> k, value |-> v, expiry |-> e]
Del(k) == [op |-> "Del", key |-> k]
LPush(k, vs) == [op |-> "LPush", key |-> k, values |-> vs]
RPush(k, vs) == [op |-> "RPush", key |-> k, values |-> vs]
LRange(k, a, b) == [op |-> "LRange", key |-> k, start |-> a, stop |-> b]
HSet(k, f, v) == [op |-> "HSet", key |-> k, field |-> f, value |-> v]
HGet(k, f) == [op |-> "HGet", key |-> k, field |-> f]
HDel(k, fs) == [op |-> "HDel", key |-> k, fields |-> fs]
HLen(k) == [op |-> "HLen", key |-> k]
HGetAll(k) == [op |-> "HGetAll", key |-> k]
Save == [op |-> "Save"]

(***************************************************************************)
(* Command::parse.  A buffer is the sequence of the chunks read from the   *)
(* socket: words, and the whitespace between and after them.               *)
(***************************************************************************)
Whitespace == {" ", "\n"}

\* A chunk of bytes that is not UTF-8.
NotUtf8 == "0xFF"

\* std::str::from_utf8(buffer).unwrap_or("")
from_utf8(buffer) ==
    IF \E i \in DOMAIN buffer : buffer[i] = NotUtf8 THEN <<>> ELSE buffer

IsWord(chunk) == chunk \notin Whitespace

\* .split_whitespace().collect::<Vec<&str>>()
split_whitespace(text) == SelectSeq(text, IsWord)

\* str::parse::<i64>() and str::parse::<u64>() on the numerals the clients use.
ParsedInt(n) == [ok |-> TRUE, val |-> n]
ParseIntError == [ok |-> FALSE, val |-> 0]

parse_i64(word) ==
    CASE word = "0" -> ParsedInt(0)
      [] word = "1" -> ParsedInt(1)
      [] word = "2" -> ParsedInt(2)
      [] word = "-1" -> ParsedInt(-1)
      [] word = "-2" -> ParsedInt(-2)
      [] OTHER -> ParseIntError

parse_u64(word) ==
    IF parse_i64(word).ok /\ parse_i64(word).val >= 0
    THEN parse_i64(word)
    ELSE ParseIntError

\* ParseError
UnknownCommand == [kind |-> "UnknownCommand", msg |-> ""]
InvalidArgument(msg) == [kind |-> "InvalidArgument", msg |-> msg]
NoError == [kind |-> "", msg |-> ""]

NoCommand == [op |-> "none"]

\* Result<Command, ParseError>
ParseOk(cmd) == [ok |-> TRUE, cmd |-> cmd, err |-> NoError]
ParseErr(e) == [ok |-> FALSE, cmd |-> NoCommand, err |-> e]

\* The slice patterns of the match, in the order of the source: the first
\* that matches decides.
parse_parts(parts) ==
    LET n == Len(parts)
        verb == IF n = 0 THEN "" ELSE parts[1]
        rest == SubSeq(parts, 3, n)
    IN  IF verb \in {"SET", "set"} /\ n = 5 /\ parts[4] \in {"EX", "ex"}
        THEN IF parse_u64(parts[5]).ok
             THEN ParseOk(Set(parts[2], parts[3], parse_u64(parts[5]).val))
             ELSE ParseErr(InvalidArgument("Expiry time must be a positive integer."))
        ELSE IF verb \in {"SET", "set"} /\ n = 3
        THEN ParseOk(Set(parts[2], parts[3], None))
        ELSE IF verb \in {"GET", "get"} /\ n = 2
        THEN ParseOk(Get(parts[2]))
        ELSE IF verb \in {"DEL", "del"} /\ n = 2
        THEN ParseOk(Del(parts[2]))
        ELSE IF verb \in {"LPUSH", "lpush"} /\ n >= 2
        THEN IF rest = <<>>
             THEN ParseErr(InvalidArgument("Usage: LPUSH <key> <value> [value ...]"))
             ELSE ParseOk(LPush(parts[2], rest))
        ELSE IF verb \in {"RPUSH", "rpush"} /\ n >= 2
        THEN IF rest = <<>>
             THEN ParseErr(InvalidArgument("Usage: RPUSH <key> <value> [value ...]"))
             ELSE ParseOk(RPush(parts[2], rest))
        ELSE IF verb \in {"LRANGE", "lrange"} /\ n = 4
        THEN IF ~parse_i64(parts[3]).ok
             THEN ParseErr(InvalidArgument("start index must be an integer."))
             ELSE IF ~parse_i64(parts[4]).ok
             THEN ParseErr(InvalidArgument("stop index must be an integer."))
             ELSE ParseOk(LRange(parts[2], parse_i64(parts[3]).val, parse_i64(parts[4]).val))
        ELSE IF verb \in {"HSET", "hset"} /\ n = 4
        THEN ParseOk(HSet(parts[2], parts[3], parts[4]))
        ELSE IF verb \in {"HGET", "hget"} /\ n = 3
        THEN ParseOk(HGet(parts[2], parts[3]))
        ELSE IF verb \in {"HDEL", "hdel"} /\ n >= 2 /\ rest # <<>>
        THEN ParseOk(HDel(parts[2], rest))
        ELSE IF verb \in {"HLEN", "hlen"} /\ n = 2
        THEN ParseOk(HLen(parts[2]))
        ELSE IF verb \in {"HGETALL", "hgetall"} /\ n = 2
        THEN ParseOk(HGetAll(parts[2]))
        ELSE IF verb \in {"SET", "set"} /\ n <= 2
        THEN ParseErr(InvalidArgument("SET command requires both key and value. Usage: SET <key> <value> [EX <seconds>]"))
        ELSE IF verb \in {"SET", "set"}
        THEN ParseErr(InvalidArgument("Invalid SET command format. Usage: SET <key> <value> [EX <seconds>]"))
        ELSE IF verb \in {"GET", "get", "DEL", "del"}
        THEN ParseErr(InvalidArgument("Usage: GET|DEL <key>"))
        ELSE IF verb \in {"LRANGE", "lrange"}
        THEN ParseErr(InvalidArgument("Usage: LRANGE <key> <start> <stop>"))
        ELSE IF verb \in {"HSET", "hset"}
        THEN ParseErr(InvalidArgument("Usage: HSET <key> <field> <value>"))
        ELSE IF verb \in {"HGET", "hget", "HGETALL", "hgetall"}
        THEN ParseErr(InvalidArgument("Usage: HGET|HGETALL <key> [field]"))
        ELSE IF verb \in {"HDEL", "hdel"}
        THEN ParseErr(InvalidArgument("Usage: HDEL <key> <field> [field ...]"))
        ELSE IF verb \in {"HLEN", "hlen"} /\ n >= 2
        THEN ParseErr(InvalidArgument("Usage: HLEN <key>"))
        ELSE IF verb \in {"SAVE", "save"} /\ n = 1
        THEN ParseOk(Save)
        ELSE ParseErr(UnknownCommand)

parse(buffer) == parse_parts(split_whitespace(from_utf8(buffer)))

StorageCommands ==
    {Get(k) : k \in Keys}
    \cup {Set(k, v, e) : k \in Keys, v \in Values, e \in Expiries}
    \cup {Del(k) : k \in Keys}
    \cup {LPush(k, vs) : k \in Keys, vs \in ArgLists(Values)}
    \cup {RPush(k, vs) : k \in Keys, vs \in ArgLists(Values)}
    \cup {LRange(k, a, b) : k \in Keys, a \in Indices, b \in Indices}
    \cup {HSet(k, f, v) : k \in Keys, f \in Fields, v \in Values}
    \cup {HGet(k, f) : k \in Keys, f \in Fields}
    \cup {HDel(k, fs) : k \in Keys, fs \in ArgLists(Fields)}
    \cup {HLen(k) : k \in Keys}
    \cup {HGetAll(k) : k \in Keys}

(***************************************************************************)
(* What the clients of the whole server send: every command, each with one *)
(* choice of value, field and range, with and without EX.                  *)
(***************************************************************************)
ClientCommands ==
    {cmd \in StorageCommands :
        CASE cmd.op = "Set" -> cmd.value = "a" /\ cmd.expiry \in {None, MaxSecs, PanicSecs}
          [] cmd.op \in {"LPush", "RPush"} -> cmd.values = <<"a">>
          [] cmd.op = "LRange" -> cmd.start = 0 /\ cmd.stop = -1
          [] cmd.op = "HSet" -> cmd.field = "f" /\ cmd.value = "a"
          [] cmd.op = "HGet" -> cmd.field = "f"
          [] cmd.op = "HDel" -> cmd.fields = <<"f">>
          [] OTHER -> TRUE}

(***************************************************************************)
(* What a client types: a verb in capitals, in small letters or in mixed   *)
(* case, or a word that is no verb, followed by arguments, the words one   *)
(* space apart and a newline at the end.                                   *)
(***************************************************************************)
Verbs ==
    {"GET", "SET", "DEL", "LPUSH", "RPUSH", "LRANGE",
     "HSET", "HGET", "HDEL", "HLEN", "HGETALL", "SAVE"}

Spellings(verb) ==
    CASE verb = "GET" -> {"GET", "get", "gEt"}
      [] verb = "SET" -> {"SET", "set", "Set"}
      [] verb = "DEL" -> {"DEL", "del", "Del"}
      [] verb = "LPUSH" -> {"LPUSH", "lpush", "LPush"}
      [] verb = "RPUSH" -> {"RPUSH", "rpush", "rPush"}
      [] verb = "LRANGE" -> {"LRANGE", "lrange", "LRange"}
      [] verb = "HSET" -> {"HSET", "hset", "HSet"}
      [] verb = "HGET" -> {"HGET", "hget", "hGET"}
      [] verb = "HDEL" -> {"HDEL", "hdel", "Hdel"}
      [] verb = "HLEN" -> {"HLEN", "hlen", "HLen"}
      [] verb = "HGETALL" -> {"HGETALL", "hgetall", "HGetAll"}
      [] verb = "SAVE" -> {"SAVE", "save", "Save"}

RequestArgs ==
    {<<>>, <<"k1">>, <<"k1", "a">>, <<"k1", "a", "b">>,
     <<"k1", "a", "EX", "1">>, <<"k1", "a", "ex", "1">>, <<"k1", "a", "EX", "-1">>,
     <<"k1", "0", "-1">>, <<"k1", "a", "-1">>, <<"k1", "0", "b">>}

RECURSIVE Typed(_)
Typed(words) ==
    IF words = <<>> THEN <<"\n">>
    ELSE IF Len(words) = 1 THEN <<words[1], "\n">>
    ELSE <<words[1], " ">> \o Typed(Tail(words))

Requests ==
    {Typed(<<first>> \o args) :
        first \in UNION {Spellings(verb) : verb \in Verbs} \cup {"PING"},
        args \in RequestArgs}
    \cup {Typed(<<>>), <<NotUtf8, "\n">>}

NoRequest == [buffer |-> <<>>, parsed |-> ParseErr(NoError)]

(***************************************************************************)
(* The clients keep lists within MaxListLen: a push whose result would be  *)
(* longer is not sent.                                                     *)
(***************************************************************************)
Issuable(st, cmd) ==
    IF cmd.op \notin {"LPush", "RPush"} THEN TRUE
    ELSE IF cmd.key \notin DOMAIN st.data THEN Len(cmd.values) <= MaxListLen
    ELSE IF st.data[cmd.key].data.tag # "List" THEN TRUE
    ELSE Len(st.data[cmd.key].data.list) + Len(cmd.values) <= MaxListLen

(***************************************************************************)
(* Responses: a sequence of lines, each written with a trailing newline.   *)
(* A response of no lines is the empty string.                             *)
(***************************************************************************)
Line(kind, a, b, n) == [kind |-> kind, a |-> a, b |-> b, n |-> n]

OkResp == <<Line("OK", "", "", 0)>>
NilResp == <<Line("NIL", "", "", 0)>>
EmptyListResp == <<Line("*(empty list)", "", "", 0)>>
TextResp(s) == <<Line("text", s, "", 0)>>
IntResp(n) == <<Line("(integer)", "", "", n)>>
ErrorResp(msg) == <<Line("(error)", msg, "", 0)>>
NoResp == <<>>

ItemLines(items) == [i \in 1..Len(items) |-> Line("text", items[i], "", 0)]

\* HashMap::iter() visits the entries in an unspecified order.
Orders(S) == {o \in [1..Cardinality(S) -> S] : \A i, j \in DOMAIN o : o[i] = o[j] => i = j}

HashLines(hash) ==
    {[i \in DOMAIN o |-> Line("pair", o[i], hash[o[i]], 0)] : o \in Orders(DOMAIN hash)}

(***************************************************************************)
(* execute_command, every arm but Save: the storage after the call,        *)
(* whether the storage call succeeded, the responses the arm can render,   *)
(* and whether the call panicked instead.                                  *)
(***************************************************************************)
Reply(r, out) == [st |-> r.st, ok |-> r.ok, out |-> out, panicked |-> FALSE]

\* The call panicked: the task unwinds, nothing is stored or answered.
Panicked(st) == [st |-> st, ok |-> FALSE, out |-> {}, panicked |-> TRUE]

execute_command(st, cmd, now) ==
    CASE cmd.op = "Set" ->
            IF set_panics(cmd.expiry, now) THEN Panicked(st)
            ELSE [st |-> set(st, cmd.key, cmd.value, cmd.expiry, now), ok |-> TRUE,
                  out |-> {OkResp}, panicked |-> FALSE]
      [] cmd.op = "Get" ->
            LET r == get(st, cmd.key, now)
            IN  Reply(r, IF ~r.some THEN {NilResp}
                         ELSE IF r.val.data.tag = "String" THEN {TextResp(r.val.data.str)}
                         ELSE {ErrorResp(WRONGTYPE)})
      [] cmd.op = "Del" ->
            Reply(remove(st, cmd.key), {OkResp})
      [] cmd.op = "LPush" ->
            LET r == lpush(st, cmd.key, cmd.values)
            IN  Reply(r, IF r.ok THEN {IntResp(r.val)} ELSE {ErrorResp(r.err)})
      [] cmd.op = "RPush" ->
            LET r == rpush(st, cmd.key, cmd.values)
            IN  Reply(r, IF r.ok THEN {IntResp(r.val)} ELSE {ErrorResp(r.err)})
      [] cmd.op = "LRange" ->
            LET r == lrange(st, cmd.key, cmd.start, cmd.stop)
            IN  Reply(r, IF ~r.ok THEN {ErrorResp(r.err)}
                         ELSE IF ~r.some THEN {EmptyListResp}
                         ELSE {ItemLines(r.val)})
      [] cmd.op = "HSet" ->
            LET r == hset(st, cmd.key, cmd.field, cmd.value)
            IN  Reply(r, IF r.ok THEN {IntResp(r.val)} ELSE {ErrorResp(r.err)})
      [] cmd.op = "HGet" ->
            LET r == hget(st, cmd.key, cmd.field)
            IN  Reply(r, IF ~r.ok THEN {ErrorResp(r.err)}
                         ELSE IF ~r.some THEN {NilResp}
                         ELSE {TextResp(r.val)})
      [] cmd.op = "HDel" ->
            LET r == hdel(st, cmd.key, cmd.fields)
            IN  Reply(r, IF r.ok THEN {IntResp(r.val)} ELSE {ErrorResp(r.err)})
      [] cmd.op = "HLen" ->
            LET r == hlen(st, cmd.key)
            IN  Reply(r, IF r.ok THEN {IntResp(r.val)} ELSE {ErrorResp(r.err)})
      [] cmd.op = "HGetAll" ->
            LET r == hgetall(st, cmd.key)
            IN  Reply(r, IF ~r.ok THEN {ErrorResp(r.err)}
                         ELSE IF ~r.some THEN {EmptyListResp}
                         ELSE HashLines(r.val))

(***************************************************************************)
(* The backing file dump.db.  bincode writes the data map entry by entry   *)
(* and skips the dirty field (#[serde(skip)]); reading it back rebuilds    *)
(* the map and gives dirty its default, false.  An entry is written as its *)
(* key, the index of its Value variant with that variant's payload, and    *)
(* its Option<u64> expiry as a presence tag and a number.  The bytes are   *)
(* kept up to the order in which a HashMap yields its entries, which a     *)
(* read into a HashMap forgets.                                            *)
(***************************************************************************)
NoFile == [state |-> "absent", bytes |-> {}]
Written(bytes) == [state |-> "written", bytes |-> bytes]
Truncated == [state |-> "truncated", bytes |-> {}]

Payload(variant, str, items, pairs) ==
    [variant |-> variant, str |-> str, items |-> items, pairs |-> pairs]

serialize_value(v) ==
    CASE v.tag = "String" -> Payload(0, v.str, <<>>, {})
      [] v.tag = "List" -> Payload(1, "", v.list, {})
      [] v.tag = "Hash" -> Payload(2, "", <<>>, {<<f, v.hash[f]>> : f \in DOMAIN v.hash})

deserialize_value(b) ==
    CASE b.variant = 0 -> StringV(b.str)
      [] b.variant = 1 -> ListV(b.items)
      [] b.variant = 2 ->
            HashV([f \in {e[1] : e \in b.pairs} |-> (CHOOSE e \in b.pairs : e[1] = f)[2]])

serialize_option(e) == IF e = None THEN [some |-> 0, n |-> 0] ELSE [some |-> 1, n |-> e]

deserialize_option(b) == IF b.some = 0 THEN None ELSE b.n

\* A deserialize for a Storage whose dirty field is not skipped and comes back
\* true.
deserializeDirty(bytes) ==
    Storage([k \in {e[1] : e \in bytes} |->
                LET e == CHOOSE e \in bytes : e[1] = k
                IN  StoreValue(deserialize_value(e[2]), deserialize_option(e[3]))],
            TRUE)

serialize(st) ==
    {<<k, serialize_value(st.data[k].data), serialize_option(st.data[k].expiry)>> :
        k \in DOMAIN st.data}

deserialize(bytes) ==
    Storage([k \in {e[1] : e \in bytes} |->
                LET e == CHOOSE e \in bytes : e[1] = k
                IN  StoreValue(deserialize_value(e[2]), deserialize_option(e[3]))],
            FALSE)

\* main: the storage the server starts with.
load(f) == IF f.state = "written" THEN deserialize(f.bytes) ELSE new

\* The body of the spawn_blocking closure: File::create, then serialize_into.
WriteOutcomes == {"ok", "create failed", "serialize failed"}

blocking_write(st, f, outcome) ==
    CASE outcome = "ok" -> [file |-> Written(serialize(st)), panicked |-> FALSE]
      [] outcome = "create failed" -> [file |-> f, panicked |-> TRUE]
      [] outcome = "serialize failed" -> [file |-> Truncated, panicked |-> TRUE]

\* A save_snapshot with no is_dirty check: it always clears and spawns.
snapshot_always(st) == [st |-> clear_dirty_flag(st), spawn |-> TRUE]

\* save_snapshot up to spawn_blocking: skip when clean, else clear the flag.
snapshot_check(st) ==
    IF ~is_dirty(st) THEN [st |-> st, spawn |-> FALSE]
    ELSE [st |-> clear_dirty_flag(st), spawn |-> TRUE]

(***************************************************************************)
(* The tokio Mutex around the storage.                                     *)
(***************************************************************************)
Unlocked == [kind |-> "free", who |-> ""]
HeldBy(p) == [kind |-> "task", who |-> p]
HeldByWriter(p) == [kind |-> "blocking", who |-> p]

ParseOutcomes == {"Ok", "UnknownCommand", "InvalidArgument"}

VARIABLES
    storage,    \* the Storage inside the Mutex
    file,       \* dump.db
    lock,       \* who holds the Mutex
    pc,         \* where each task is
    bpc,        \* where the blocking writer spawned by each task's save_snapshot is
    resp,       \* the response a connection is about to write
    now,        \* SystemTime::now()
    budget,     \* requests the clients may still send
    gapMut,     \* history: tasks whose snapshot cycle saw a set, delete, push or
                \* field set between its clear_dirty_flag and its writer
                \* taking the lock
    decided,    \* history: snapshot cycles that went on to write since the
                \* last command that changed the keyspace
    request     \* the buffer the last socket.read of Client filled, and what
                \* Command::parse made of it

vars == <<storage, file, lock, pc, bpc, resp, now, budget, gapMut, decided, request>>

\* main: the server starts from the dump.db it finds, here from one of files.
InitWith(files) ==
    /\ file \in files
    /\ storage = load(file)
    /\ lock = Unlocked
    /\ pc = [p \in Procs |-> IF p = Timer THEN "sleep" ELSE "read"]
    /\ bpc = [p \in Procs |-> "none"]
    /\ resp = [c \in Conns |-> NoResp]
    /\ now = 0
    /\ budget = MaxReqs
    /\ gapMut = {}
    /\ decided = 0
    /\ request = NoRequest

\* A first start: there is no dump.db yet.
Init == InitWith({NoFile})

(***************************************************************************)
(* process_connection: socket.read and Command::parse.  Which command the  *)
(* bytes hold is drawn where execute_command first looks at it.            *)
(***************************************************************************)
\* A connection that reads its next request while the response to the last
\* one is still to be written.
ReadRequestAhead(c) ==
    /\ pc[c] \in {"read", "write"}
    /\ budget > 0
    /\ budget' = budget - 1
    /\ \E parsed \in ParseOutcomes :
          IF parsed = "Ok"
          THEN /\ pc' = [pc EXCEPT ![c] = "lock"]
               /\ resp' = resp
          ELSE /\ pc' = [pc EXCEPT ![c] = "write"]
               /\ resp' = [resp EXCEPT ![c] = ErrorResp(parsed)]
    /\ UNCHANGED <<storage, file, lock, bpc, now, gapMut, decided, request>>

ReadRequest(c) ==
    /\ pc[c] = "read"
    /\ budget > 0
    /\ budget' = budget - 1
    /\ \E parsed \in ParseOutcomes :
          IF parsed = "Ok"
          THEN /\ pc' = [pc EXCEPT ![c] = "lock"]
               /\ resp' = resp
          ELSE /\ pc' = [pc EXCEPT ![c] = "write"]
               /\ resp' = [resp EXCEPT ![c] = ErrorResp(parsed)]
    /\ UNCHANGED <<storage, file, lock, bpc, now, gapMut, decided, request>>

\* socket.read returns Ok(0) or Err: the connection's task ends.
Close(c) ==
    /\ pc[c] = "read"
    /\ pc' = [pc EXCEPT ![c] = "closed"]
    /\ UNCHANGED <<storage, file, lock, bpc, resp, now, budget, gapMut, decided, request>>

(***************************************************************************)
(* execute_command for every command but SAVE: db.lock().await, the match  *)
(* arm, and the guard dropped on return, with no await in between.  A call *)
(* that panics ends the connection's task; the unwinding drops the guard.  *)
(***************************************************************************)
\* The calls that end in self.dirty = true with the keyspace written to: set,
\* a remove that removed, and an lpush, rpush or hset that returned Ok.
Dirtying(st, cmd, r) ==
    \/ cmd.op = "Set" /\ ~r.panicked
    \/ cmd.op = "Del" /\ cmd.key \in DOMAIN st.data
    \/ cmd.op \in {"LPush", "RPush", "HSet"} /\ r.ok

\* An execute_command that does not wait for the Mutex.
ExecuteCommandNoLock(c, cmd) ==
    /\ pc[c] = "lock"
    /\ Issuable(storage, cmd)
    /\ LET r == execute_command(storage, cmd, now)
       IN  /\ storage' = r.st
           /\ IF r.panicked
              THEN /\ resp' = resp
                   /\ pc' = [pc EXCEPT ![c] = "closed"]
              ELSE /\ \E out \in r.out : resp' = [resp EXCEPT ![c] = out]
                   /\ pc' = [pc EXCEPT ![c] = "write"]
           /\ gapMut' = IF Dirtying(storage, cmd, r)
                        THEN gapMut \cup {p \in Procs : bpc[p] = "spawned"}
                        ELSE gapMut
           /\ decided' = IF Dirtying(storage, cmd, r) \/ r.st.data # storage.data
                         THEN 0 ELSE decided
    /\ UNCHANGED <<file, lock, bpc, now, budget, request>>

ExecuteCommandWith(c, cmd) ==
    /\ pc[c] = "lock"
    /\ lock = Unlocked
    /\ Issuable(storage, cmd)
    /\ LET r == execute_command(storage, cmd, now)
       IN  /\ storage' = r.st
           /\ IF r.panicked
              THEN /\ resp' = resp
                   /\ pc' = [pc EXCEPT ![c] = "closed"]
              ELSE /\ \E out \in r.out : resp' = [resp EXCEPT ![c] = out]
                   /\ pc' = [pc EXCEPT ![c] = "write"]
           /\ gapMut' = IF Dirtying(storage, cmd, r)
                        THEN gapMut \cup {p \in Procs : bpc[p] = "spawned"}
                        ELSE gapMut
           /\ decided' = IF Dirtying(storage, cmd, r) \/ r.st.data # storage.data
                         THEN 0 ELSE decided
    /\ UNCHANGED <<file, lock, bpc, now, budget, request>>

ExecuteCommand(c) == \E cmd \in ClientCommands : ExecuteCommandWith(c, cmd)

(***************************************************************************)
(* execute_command for SAVE: db.lock().await, then save_snapshot(&db) is   *)
(* called with the guard db_lock still alive.                              *)
(***************************************************************************)
ExecuteSave(c) ==
    /\ pc[c] = "lock"
    /\ lock = Unlocked
    /\ lock' = HeldBy(c)
    /\ pc' = [pc EXCEPT ![c] = "snap"]
    /\ UNCHANGED <<storage, file, bpc, resp, now, budget, gapMut, decided, request>>

(***************************************************************************)
(* save_snapshot, run by the timer task and by SAVE.                       *)
(***************************************************************************)
\* save_snapshot returns to its caller.
Return(p) ==
    IF p = Timer
    THEN /\ pc' = [pc EXCEPT ![p] = "sleep"]
         /\ UNCHANGED <<resp, lock>>
    ELSE /\ pc' = [pc EXCEPT ![p] = "write"]
         /\ resp' = [resp EXCEPT ![p] = OkResp]
         /\ lock' = Unlocked

\* db.lock().await, is_dirty, clear_dirty_flag, drop(db_lock), spawn_blocking.
SnapshotCheck(p) ==
    /\ pc[p] = "snap"
    /\ lock = Unlocked
    /\ LET r == snapshot_check(storage)
       IN  /\ storage' = r.st
           /\ IF r.spawn
              THEN /\ bpc' = [bpc EXCEPT ![p] = "spawned"]
                   /\ pc' = [pc EXCEPT ![p] = "join"]
                   /\ decided' = decided + 1
                   /\ UNCHANGED <<resp, lock>>
              ELSE /\ Return(p)
                   /\ UNCHANGED <<bpc, decided>>
    /\ UNCHANGED <<file, now, budget, gapMut, request>>

\* The closure's blocking_lock().
BlockingLock(p) ==
    /\ bpc[p] = "spawned"
    /\ lock = Unlocked
    /\ lock' = HeldByWriter(p)
    /\ bpc' = [bpc EXCEPT ![p] = "locked"]
    /\ UNCHANGED <<storage, file, pc, resp, now, budget, gapMut, decided, request>>

\* File::create and serialize_into; a failed expect panics the closure, and
\* the unwinding drops the guard.
BlockingWriteWith(p, outcomes) ==
    /\ bpc[p] = "locked"
    /\ \E outcome \in outcomes :
          LET w == blocking_write(storage, file, outcome)
          IN  /\ file' = w.file
              /\ bpc' = [bpc EXCEPT ![p] = IF w.panicked THEN "panicked" ELSE "ok"]
    /\ lock' = Unlocked
    /\ UNCHANGED <<storage, pc, resp, now, budget, gapMut, decided, request>>

BlockingWrite(p) == BlockingWriteWith(p, WriteOutcomes)

\* A handle.await whose JoinError is unwrapped: the task that joins a panicked
\* closure ends.
SnapshotJoinUnwrap(p) ==
    /\ pc[p] = "join"
    /\ bpc[p] \in {"ok", "panicked"}
    /\ bpc' = [bpc EXCEPT ![p] = "none"]
    /\ gapMut' = gapMut \ {p}
    /\ IF bpc[p] = "panicked"
       THEN /\ pc' = [pc EXCEPT ![p] = "closed"]
            /\ UNCHANGED <<resp, lock>>
       ELSE Return(p)
    /\ UNCHANGED <<storage, file, now, budget, decided, request>>

\* handle.await: Ok, or the JoinError of a panicked closure, which is logged.
SnapshotJoin(p) ==
    /\ pc[p] = "join"
    /\ bpc[p] \in {"ok", "panicked"}
    /\ bpc' = [bpc EXCEPT ![p] = "none"]
    /\ gapMut' = gapMut \ {p}
    /\ Return(p)
    /\ UNCHANGED <<storage, file, now, budget, decided, request>>

\* The periodic task: sleep(SAVE_INTERVAL_SECS) is over.
TimerFire ==
    /\ pc[Timer] = "sleep"
    /\ pc' = [pc EXCEPT ![Timer] = "snap"]
    /\ UNCHANGED <<storage, file, lock, bpc, resp, now, budget, gapMut, decided, request>>

\* socket.write_all(response): back to socket.read, or the task ends on Err.
WriteResponse(c) ==
    /\ pc[c] = "write"
    /\ \E sent \in BOOLEAN : pc' = [pc EXCEPT ![c] = IF sent THEN "read" ELSE "closed"]
    /\ resp' = [resp EXCEPT ![c] = NoResp]
    /\ UNCHANGED <<storage, file, lock, bpc, now, budget, gapMut, decided, request>>

\* Time passes.
AdvanceClock ==
    /\ \E t \in Instants : t > now /\ now' = t
    /\ UNCHANGED <<storage, file, lock, pc, bpc, resp, budget, gapMut, decided, request>>

Next ==
    \/ \E c \in Conns : ReadRequest(c)
    \/ \E c \in Conns : Close(c)
    \/ \E c \in Conns : ExecuteCommand(c)
    \/ \E c \in Conns : ExecuteSave(c)
    \/ \E c \in Conns : WriteResponse(c)
    \/ \E p \in Procs : SnapshotCheck(p)
    \/ \E p \in Procs : BlockingLock(p)
    \/ \E p \in Procs : BlockingWrite(p)
    \/ \E p \in Procs : SnapshotJoin(p)
    \/ TimerFire
    \/ AdvanceClock

Spec == Init /\ [][Next]_vars

(***************************************************************************)
(* The storage engine under one connection: process_connection's loop body *)
(* for a request that parses to a storage command, run to completion with  *)
(* no other task in between (read, parse, lock, execute, unlock, write).    *)
(* resp keeps the response written last.                                   *)
(***************************************************************************)
Client == "c1"

CallWith(cmd) ==
    /\ pc[Client] = "read"
    /\ lock = Unlocked
    /\ Issuable(storage, cmd)
    /\ LET r == execute_command(storage, cmd, now)
       IN  /\ storage' = r.st
           /\ IF r.panicked
              THEN /\ resp' = resp
                   /\ pc' = [pc EXCEPT ![Client] = "closed"]
              ELSE /\ \E out \in r.out : resp' = [resp EXCEPT ![Client] = out]
                   /\ pc' = pc
    /\ UNCHANGED <<file, lock, bpc, now, budget, gapMut, decided, request>>

Call == \E cmd \in StorageCommands : CallWith(cmd)

StorageNext == Call \/ AdvanceClock

\* Dumps left by earlier runs: between them every variant is at some key.
DumpFiles ==
    {NoFile,
     Written(serialize(Storage(
         [k \in Keys |-> IF k = "k1" THEN StoreValue(StringV("a"), None)
                                     ELSE StoreValue(ListV(<<"a", "b">>), None)],
         FALSE))),
     Written(serialize(Storage(
         [k \in Keys |-> IF k = "k1" THEN StoreValue(HashV([f \in {"f"} |-> "a"]), None)
                                     ELSE StoreValue(StringV("b"), MsPerSec)],
         FALSE)))}

StorageInit == InitWith(DumpFiles)

StorageSpec == StorageInit /\ [][StorageNext]_vars

(***************************************************************************)
(* The whole server started on a dump.db left by an earlier run.           *)
(***************************************************************************)
RestartInit == InitWith(DumpFiles)

RestartSpec == RestartInit /\ [][Next]_vars

(***************************************************************************)
(* The whole server on a disk whose writes succeed, under the scheduling   *)
(* tokio gives: a task that can run does run, the Mutex hands the lock to  *)
(* its waiters in turn, the sleep ends, a response gets written.  What the *)
(* clients send, and when, is left to them.                                *)
(***************************************************************************)
(***************************************************************************)
(* The parser under one connection: process_connection's loop body for the *)
(* buffer a read returned, run to completion with no other task in         *)
(* between: parse, then the error rendered, or the command executed.  A    *)
(* SAVE takes the lock and stays in save_snapshot.  request keeps the      *)
(* buffer and its parse, resp the response written last.                   *)
(***************************************************************************)
\* A rendering of a parse error that writes nothing.
ParseErrorRespNothing(e) == <<>>

ParseErrorResp(e) == <<Line("(error)", e.kind, e.msg, 0)>>

ServeWith(buffer) ==
    /\ pc[Client] = "read"
    /\ lock = Unlocked
    /\ budget > 0
    /\ budget' = budget - 1
    /\ LET parsed == parse(buffer)
       IN  /\ request' = [buffer |-> buffer, parsed |-> parsed]
           /\ IF ~parsed.ok
              THEN /\ resp' = [resp EXCEPT ![Client] = ParseErrorResp(parsed.err)]
                   /\ UNCHANGED <<storage, lock, pc>>
              ELSE IF parsed.cmd.op = "Save"
              THEN /\ lock' = HeldBy(Client)
                   /\ pc' = [pc EXCEPT ![Client] = "snap"]
                   /\ UNCHANGED <<storage, resp>>
              ELSE LET r == execute_command(storage, parsed.cmd, now)
                   IN  /\ storage' = r.st
                       /\ lock' = lock
                       /\ IF r.panicked
                          THEN /\ resp' = resp
                               /\ pc' = [pc EXCEPT ![Client] = "closed"]
                          ELSE /\ \E out \in r.out : resp' = [resp EXCEPT ![Client] = out]
                               /\ pc' = pc
    /\ UNCHANGED <<file, bpc, now, gapMut, decided>>

Serve == \E buffer \in Requests : ServeWith(buffer)

ParseNext == Serve

ParseSpec == Init /\ [][ParseNext]_vars

(***************************************************************************)
(* The server under clients that only read: started on a dump, they send   *)
(* GET for keys that are absent or have not expired, LRANGE, HGET, HLEN    *)
(* and HGETALL, while the timer runs save_snapshot.  The blocking writer   *)
(* has no step here: it runs only once save_snapshot has spawned it.       *)
(***************************************************************************)
ReadOps == {"Get", "LRange", "HGet", "HLen", "HGetAll"}

ReadCommands(st, t) ==
    {cmd \in ClientCommands :
        /\ cmd.op \in ReadOps
        /\ cmd.op = "Get" => get(st, cmd.key, t).st = st}

ExecuteRead(c) == \E cmd \in ReadCommands(storage, now) : ExecuteCommandWith(c, cmd)

ReadNext ==
    \/ \E c \in Conns : ReadRequest(c)
    \/ \E c \in Conns : Close(c)
    \/ \E c \in Conns : ExecuteRead(c)
    \/ \E c \in Conns : WriteResponse(c)
    \/ \E p \in Procs : SnapshotCheck(p)
    \/ TimerFire
    \/ AdvanceClock

ReadSpec == RestartInit /\ [][ReadNext]_vars

BlockingWriteOk(p) == BlockingWriteWith(p, {"ok"})

FairNext ==
    \/ \E c \in Conns : ReadRequest(c)
    \/ \E c \in Conns : Close(c)
    \/ \E c \in Conns : ExecuteCommand(c)
    \/ \E c \in Conns : ExecuteSave(c)
    \/ \E c \in Conns : WriteResponse(c)
    \/ \E p \in Procs : SnapshotCheck(p)
    \/ \E p \in Procs : BlockingLock(p)
    \/ \E p \in Procs : BlockingWriteOk(p)
    \/ \E p \in Procs : SnapshotJoin(p)
    \/ TimerFire
    \/ AdvanceClock

Fairness ==
    /\ \A c \in Conns : SF_vars(ExecuteCommand(c) \/ ExecuteSave(c))
    /\ \A c \in Conns : WF_vars(WriteResponse(c))
    /\ \A p \in Procs : SF_vars(SnapshotCheck(p))
    /\ \A p \in Procs : SF_vars(BlockingLock(p))
    /\ \A p \in Procs : WF_vars(BlockingWriteOk(p))
    /\ \A p \in Procs : WF_vars(SnapshotJoin(p))
    /\ WF_vars(TimerFire)

FairSpec == Init /\ [][FairNext]_vars /\ Fairness

(***************************************************************************)
(*                              The claims                                 *)
(***************************************************************************)

\* The variant an operation requires, for those that require one.
ListOps == {"LPush", "RPush", "LRange"}
HashOps == {"HSet", "HGet", "HDel", "HLen", "HGetAll"}

WrongVariant(st, cmd) ==
    /\ cmd.op \in ListOps \cup HashOps
    /\ cmd.key \in DOMAIN st.data
    /\ st.data[cmd.key].data.tag # (IF cmd.op \in ListOps THEN "List" ELSE "Hash")

\* C1 (StorageSpec): in every state the storage can reach, each of lpush,
\* rpush, lrange, hset, hget, hdel, hlen, hgetall addressed at a key that holds
\* another variant fails with the WRONGTYPE error and leaves the storage, the
\* keyspace and the dirty flag, exactly as it was.
C1_WrongTypeIsPure ==
    \A cmd \in StorageCommands :
        WrongVariant(storage, cmd) =>
            LET r == execute_command(storage, cmd, now)
            IN  /\ ~r.ok
                /\ r.out = {ErrorResp(WRONGTYPE)}
                /\ r.st = storage

\* A WRONGTYPE failure has just been answered on a clean store that holds a
\* scalar at one key and a list at the other.
C1_Witness ==
    /\ resp[Client] = ErrorResp(WRONGTYPE)
    /\ ~storage.dirty
    /\ DOMAIN storage.data = Keys
    /\ storage.data["k1"].data.tag = "String"
    /\ storage.data["k2"].data.tag = "List"

\* C2 (FairSpec): a SAVE that finds the store dirty writes the file, and the
\* snapshot cycles that follow one another with no mutation in between write
\* it once: a second SAVE is a no-op.
C2_SaveTwiceOneWrite ==
    /\ \A c \in Conns : (pc[c] = "snap" /\ storage.dirty) ~> (bpc[c] = "ok")
    /\ [](decided <= 1)

\* C3 (FairSpec): every SAVE a client issues is eventually answered OK, with
\* the lock no longer held by its task.
C3_SaveCompletes ==
    \A c \in Conns :
        (pc[c] = "snap") ~> (pc[c] = "write" /\ resp[c] = OkResp /\ lock # HeldBy(c))

\* C4 (FairSpec): every task waiting for the lock gets it and finishes what it
\* waited for: a pending request is answered, a timer tick's snapshot cycle
\* returns to its sleep.
C4_NoTaskWaitsForever ==
    /\ \A c \in Conns : (pc[c] = "lock") ~> (pc[c] = "write")
    /\ (pc[Timer] = "snap") ~> (pc[Timer] = "sleep")

\* C5 (Spec): a write that succeeds stores the keyspace as it is when the
\* writer holds the lock, so with the mutations made in the gap; a cycle that
\* saw a mutation in its gap ends with the dirty flag true; and a cycle that
\* finds the flag true goes on to write.
C5_GapMutationCaptured ==
    [][\A p \in Procs :
          /\ (bpc[p] = "locked" /\ bpc'[p] = "ok")
                => (file' = Written(serialize(storage)) /\ storage' = storage)
          /\ (p \in gapMut /\ pc[p] = "join" /\ pc'[p] # "join")
                => (storage.dirty /\ storage'.dirty)
          /\ (pc[p] = "snap" /\ pc'[p] # "snap" /\ storage.dirty)
                => bpc'[p] = "spawned"]_vars

\* The timer's cycle saw a mutation in its gap and its write succeeded: the
\* file holds the keyspace, mutation included, and the flag is true.
C5_Witness ==
    /\ Timer \in gapMut
    /\ bpc[Timer] = "ok"
    /\ storage.data # EmptyMap
    /\ file = Written(serialize(storage))
    /\ storage.dirty

\* The clients have stopped: every request sent has been answered.
Quiescent == budget = 0 /\ \A c \in Conns : pc[c] \in {"read", "closed"}

\* C6 (FairSpec): once the clients have stopped, the backing file eventually
\* holds exactly the current keyspace.
C6_NoWriteLost == Quiescent ~> (load(file).data = storage.data)

\* C7 (Spec): in every reachable state, a set, a delete that removes a key and
\* a successful lpush, rpush or hset leave the dirty flag true, and an hdel
\* leaves it as it was; and the flag goes from true to false only in the
\* snapshot routine's check step.
C7_DirtyFlag ==
    /\ [](\A cmd \in StorageCommands :
             Issuable(storage, cmd) =>
                 LET r == execute_command(storage, cmd, now)
                 IN  /\ Dirtying(storage, cmd, r) => r.st.dirty
                     /\ cmd.op = "HDel" => r.st.dirty = storage.dirty)
    /\ [][(storage.dirty /\ ~storage'.dirty) => \E p \in Procs : SnapshotCheck(p)]_vars

\* An hdel has removed the only field of a hash after a snapshot cycle cleared
\* the flag, and the flag is still false.
C7_Witness ==
    \E c \in Conns, k \in Keys :
        /\ pc[c] = "write"
        /\ resp[c] = IntResp(1)
        /\ k \in DOMAIN storage.data
        /\ storage.data[k].data = HashV(EmptyMap)
        /\ ~storage.dirty

\* C8 (Spec): the step in which the file write fails releases the lock and
\* changes neither the storage nor any task's position; the failed writer is
\* joined by its cycle, and that join takes the task back to where a
\* successful cycle takes it (the timer to its sleep), the storage unchanged.
C8_WriteFailureIsContained ==
    /\ [](\A p \in Procs : bpc[p] = "panicked" => pc[p] = "join")
    /\ [][\A p \in Procs :
             /\ (bpc[p] = "locked" /\ bpc'[p] = "panicked")
                   => (lock' = Unlocked /\ storage' = storage /\ pc' = pc)
             /\ (bpc[p] = "panicked" /\ bpc'[p] # "panicked")
                   => (/\ pc'[p] = (IF p = Timer THEN "sleep" ELSE "write")
                       /\ bpc'[p] = "none"
                       /\ storage' = storage)]_vars

\* The timer's write has failed half way (the file is truncated), the lock is
\* free and a client's request is waiting to be executed.
C8_Witness ==
    /\ bpc[Timer] = "panicked"
    /\ file = Truncated
    /\ lock = Unlocked
    /\ \E c \in Conns : pc[c] = "lock"

\* C9 (Spec): a snapshot cycle whose file write failed ends with the store
\* still marked as needing a snapshot.
C9_FailedWriteStaysDirty ==
    [][\A p \in Procs :
          (bpc[p] = "panicked" /\ bpc'[p] # "panicked") => storage'.dirty]_vars

\* C10 (Spec): a timer cycle that finds the flag false returns to its sleep
\* with no writer spawned and the file, the storage and the lock untouched; and
\* of the cycles that check the flag with no mutation in between, at most one
\* goes on to write.
C10_CleanTickWritesNothing ==
    /\ [](decided <= 1)
    /\ [][(pc[Timer] = "snap" /\ pc'[Timer] # "snap" /\ ~storage.dirty)
             => /\ pc'[Timer] = "sleep"
                /\ bpc' = bpc
                /\ file' = file
                /\ storage' = storage
                /\ lock' = Unlocked]_vars

\* A cycle has written the keyspace, nothing has changed since, and the timer
\* has fired again: it is about to find the flag false.
C10_Witness ==
    /\ pc[Timer] = "snap"
    /\ ~storage.dirty
    /\ decided = 1
    /\ lock = Unlocked
    /\ storage.data # EmptyMap
    /\ file = Written(serialize(storage))

\* The tasks inside a critical section that spans more than one step: a
\* connection in SAVE holding execute_command's guard, a writer holding its
\* blocking_lock guard.
InCriticalSection ==
    {p \in Conns : pc[p] = "snap"} \cup {p \in Procs : bpc[p] = "locked"}

\* C11 (Spec): at most one task is inside its critical section and the lock
\* names it; a command's execution and the snapshot routine's check happen
\* only from the free lock, so never while a writer holds it; and the file
\* changes only in the step of the writer that holds the lock, a successful
\* write storing the keyspace exactly as it is in that step.
C11_MutualExclusion ==
    /\ [](/\ Cardinality(InCriticalSection) <= 1
          /\ \A c \in Conns : pc[c] = "snap" => lock = HeldBy(c)
          /\ \A p \in Procs : bpc[p] = "locked" => lock = HeldByWriter(p)
          /\ InCriticalSection = {} => lock = Unlocked)
    /\ [][/\ storage' # storage => lock = Unlocked
          /\ file' # file =>
                \E p \in Procs :
                    /\ lock = HeldByWriter(p)
                    /\ storage' = storage
                    /\ file' \in {Written(serialize(storage)), Truncated}]_vars

\* The timer's writer holds the lock on a non-empty keyspace while a client's
\* command waits for it.
C11_Witness ==
    /\ bpc[Timer] = "locked"
    /\ lock = HeldByWriter(Timer)
    /\ storage.data # EmptyMap
    /\ \E c \in Conns : pc[c] = "lock"

\* The instants at which the clock can be read from now on.
Later(t) == {u \in Instants : u >= t}

\* A get at time t of a key set now with a duration: a hit that returns the
\* value and changes nothing when alive, else a miss that removes the entry,
\* leaves the other keys alone and sets the dirty flag, after which every later
\* get misses too.
GetAfterSet(key, value, secs, t, alive) ==
    LET st1 == set(storage, key, value, secs, now)
        r == get(st1, key, t)
    IN  IF alive
        THEN /\ r.some
             /\ r.val.data = StringV(value)
             /\ r.st = st1
        ELSE /\ ~r.some
             /\ r.st.data = MapRemove(st1.data, key)
             /\ r.st.dirty
             /\ \A u \in Later(t) :
                   LET r2 == get(r.st, key, u)
                   IN  ~r2.some /\ r2.st = r.st

\* C12 (StorageSpec): a key set now (t0) with duration T is returned by a get
\* at every later time t < t0 + T, and a get at a time t >= t0 + T misses,
\* removes the entry and sets the dirty flag.
C12_ExpiresAtT ==
    \A key \in Keys, value \in Values, secs \in Expiries \ {None}, t \in Later(now) :
        ~set_panics(secs, now) =>
            GetAfterSet(key, value, secs, t, t < now + from_secs(secs))

\* The keys that hold a list.
ListKeys == {k \in DOMAIN storage.data : storage.data[k].data.tag = "List"}

\* C13 (StorageSpec): for every list in the keyspace, of length L, and all
\* start and stop, with s and e the indices counted from the end when negative
\* and raised to 0, lrange returns no element when s >= L or s > e, and
\* otherwise the elements at the positions s .. min(e, L-1) in list order;
\* lrange(0, -1) returns the whole list, no result is longer than L, and the
\* storage is left as it was.
C13_LRangeSlice ==
    \A key \in ListKeys :
        LET list == storage.data[key].data.list
            L == Len(list)
        IN  /\ \A start \in Indices, stop \in Indices :
                  LET r == lrange(storage, key, start, stop)
                      a == IF start < 0 THEN start + L ELSE start
                      b == IF stop < 0 THEN stop + L ELSE stop
                      s == IF a < 0 THEN 0 ELSE a
                      e == IF b < 0 THEN 0 ELSE b
                      last == IF e < L - 1 THEN e ELSE L - 1
                  IN  /\ r.ok /\ r.some
                      /\ r.st = storage
                      /\ Len(r.val) <= L
                      /\ IF s >= L \/ s > e
                         THEN r.val = <<>>
                         ELSE r.val = [i \in 1..(last - s + 1) |-> list[s + i]]
            /\ lrange(storage, key, 0, -1).val = list

\* An LRANGE has just answered with the last element alone of a two-element
\* list.
C13_Witness ==
    \E key \in ListKeys :
        /\ storage.data[key].data.list = <<"a", "b">>
        /\ resp[Client] = ItemLines(<<"b">>)

\* The list at a key, the empty list when the key is absent.
ListAt(st, key) == IF key \in DOMAIN st.data THEN st.data[key].data.list ELSE <<>>

\* The keys a push can address: absent, or holding a list.
PushKeys == {k \in Keys : k \notin DOMAIN storage.data} \cup ListKeys

Reversed(values) == [i \in 1..Len(values) |-> values[Len(values) + 1 - i]]

\* C14 (StorageSpec): an lpush of v1..vn at an absent key or at a list of
\* length L leaves at the key the list vn, ..., v1 followed by the previous
\* elements in their order, and returns L + n.
C14_LPushReverses ==
    \A key \in PushKeys, values \in ArgLists(Values) :
        LET old == ListAt(storage, key)
            r == lpush(storage, key, values)
        IN  /\ r.ok
            /\ r.val = Len(old) + Len(values)
            /\ key \in DOMAIN r.st.data
            /\ r.st.data[key].data = ListV(Reversed(values) \o old)

\* From an empty store, LPUSH of two different values has answered 2 and the
\* list holds them last argument first: the arguments were a then b.
C14_Witness ==
    /\ file = NoFile
    /\ resp[Client] = IntResp(2)
    /\ \E key \in Keys :
          storage.data = [k \in {key} |-> StoreValue(ListV(<<"b", "a">>), None)]

\* C15 (StorageSpec): an rpush of v1..vn at an absent key or at a list of
\* length L leaves at the key the previous elements in their order followed
\* by v1, ..., vn, and returns L + n; at an absent key the list is created
\* with no expiry.
C15_RPushAppends ==
    \A key \in PushKeys, values \in ArgLists(Values) :
        LET old == ListAt(storage, key)
            r == rpush(storage, key, values)
        IN  /\ r.ok
            /\ r.val = Len(old) + Len(values)
            /\ key \in DOMAIN r.st.data
            /\ r.st.data[key].data = ListV(old \o values)
            /\ key \notin DOMAIN storage.data => r.st.data[key].expiry = None

\* From an empty store, RPUSH has answered 2 and the list holds a then b.
C15_Witness ==
    /\ file = NoFile
    /\ resp[Client] = IntResp(2)
    /\ \E key \in Keys :
          storage.data = [k \in {key} |-> StoreValue(ListV(<<"a", "b">>), None)]

\* The keys that hold a mapping.
HashKeys == {k \in DOMAIN storage.data : storage.data[k].data.tag = "Hash"}

\* C16 (StorageSpec): an hset of field f to v at an absent key or at a mapping
\* returns 1 when f was not in the mapping (or the key was absent) and 0 when
\* f was there; either way a following hget of f returns v, the other fields
\* keep their values, and hlen has grown by the count returned.
C16_HSetCount ==
    \A key \in {k \in Keys : k \notin DOMAIN storage.data} \cup HashKeys,
       field \in Fields, value \in Values :
        LET fresh == key \notin DOMAIN storage.data
                     \/ field \notin DOMAIN storage.data[key].data.hash
            r == hset(storage, key, field, value)
            g == hget(r.st, key, field)
        IN  /\ r.ok
            /\ r.val = (IF fresh THEN 1 ELSE 0)
            /\ g.ok /\ g.some /\ g.val = value
            /\ hlen(r.st, key).val = hlen(storage, key).val + r.val
            /\ \A other \in Fields \ {field} :
                  hget(r.st, key, other) = [hget(storage, key, other) EXCEPT !.st = r.st]

\* From an empty store, a second HSET of the same field has answered 0 and the
\* field holds the second value.
C16_Witness ==
    /\ file = NoFile
    /\ resp[Client] = IntResp(0)
    /\ \E key \in Keys :
          storage.data = [k \in {key} |-> StoreValue(HashV([f \in {"f"} |-> "b"]), None)]

\* C17 (RestartSpec): reading back what serialize writes gives the same keys
\* with the same variants, contents (list order included) and expiries, and
\* the dirty flag false whatever it was; and a server started on a dump holds
\* exactly the dump, clean, and spawns no writer, whatever the timer does, as
\* long as no request has been read.
C17_RoundTrip ==
    /\ deserialize(serialize(storage)) = Storage(storage.data, FALSE)
    /\ budget = MaxReqs =>
          /\ storage = load(file)
          /\ ~storage.dirty
          /\ \A p \in Procs : bpc[p] = "none"

\* The server was started on a dump that holds a scalar and a two-element
\* list, no request has been read, and the timer has fired.
C17_Witness ==
    /\ budget = MaxReqs
    /\ pc[Timer] = "snap"
    /\ DOMAIN storage.data = Keys
    /\ storage.data["k1"].data = StringV("a")
    /\ storage.data["k2"].data = ListV(<<"a", "b">>)
    /\ file = Written(serialize(storage))

\* A set of key to value with an optional duration, from the current state:
\* the SET command answers OK; the key then holds Scalar(value) with no expiry
\* when no duration was given and else the millisecond of now + duration; the
\* other keys are as before; the dirty flag is true; and a get that follows at
\* once returns the value when hit and absent when not.
SetReplaces(key, value, expiry, hit) ==
    LET r == execute_command(storage, Set(key, value, expiry), now)
        g == get(r.st, key, now)
    IN  /\ r.ok /\ r.out = {OkResp}
        /\ DOMAIN r.st.data = DOMAIN storage.data \cup {key}
        /\ \A k \in DOMAIN storage.data \ {key} : r.st.data[k] = storage.data[k]
        /\ r.st.data[key].data = StringV(value)
        /\ r.st.data[key].expiry =
              (IF expiry = None THEN None ELSE (now + expiry * 1000000) \div 1000)
        /\ r.st.dirty
        /\ IF hit THEN g.some /\ g.val.data = StringV(value) /\ g.st = r.st
                  ELSE ~g.some

\* C18 (StorageSpec): whatever the key holds, a set succeeds, replaces the
\* entry by Scalar(value) with the new expiry or none, sets the dirty flag,
\* and a following get returns the new value.
C18_SetThenGet ==
    \A key \in Keys, value \in Values, expiry \in Expiries :
        SetReplaces(key, value, expiry, TRUE)

\* C19 (StorageSpec): for every key, DEL answers OK; when the key is in the map
\* (whatever its variant, and whether or not its expiry has passed) remove
\* takes exactly that entry out and sets the dirty flag; when the key is not in
\* the map remove changes nothing, the dirty flag included; and a get that
\* follows finds the key absent and changes nothing more.
C19_DeleteRemoves ==
    \A key \in Keys :
        LET r == remove(storage, key)
            x == execute_command(storage, Del(key), now)
            g == get(r.st, key, now)
        IN  /\ ~x.panicked /\ x.out = {OkResp} /\ x.st = r.st
            /\ r.ok
            /\ IF key \in DOMAIN storage.data
               THEN /\ DOMAIN r.st.data = DOMAIN storage.data \ {key}
                    /\ \A k \in DOMAIN r.st.data : r.st.data[k] = storage.data[k]
                    /\ r.st.dirty
               ELSE r.st = storage
            /\ g.ok /\ ~g.some /\ g.st = r.st

\* A DEL has just answered OK for the scalar the dump held, and only the list
\* of the dump is left.
C19_Witness ==
    /\ file # NoFile
    /\ resp[Client] = OkResp
    /\ storage.dirty
    /\ storage.data = [k \in {"k2"} |-> StoreValue(ListV(<<"a", "b">>), None)]

\* The verb a word spells, in capitals; the word itself when it spells none.
Capitals(word) ==
    IF \E verb \in Verbs : word \in Spellings(verb)
    THEN CHOOSE verb \in Verbs : word \in Spellings(verb)
    ELSE word

\* C20 (ParseSpec): whenever the request just read begins with a spelling of
\* one of the twelve verbs (in capitals, in small letters or in mixed case),
\* its parse is the parse of the same request with the verb in capitals.
C20_VerbCaseInsensitive ==
    LET parts == split_whitespace(from_utf8(request.buffer))
    IN  (parts # <<>> /\ Capitals(Head(parts)) \in Verbs)
            => request.parsed = parse_parts(<<Capitals(Head(parts))>> \o Tail(parts))

\* The two spellings of a verb that the parser is written for.
Small(verb) ==
    CASE verb = "GET" -> "get"
      [] verb = "SET" -> "set"
      [] verb = "DEL" -> "del"
      [] verb = "LPUSH" -> "lpush"
      [] verb = "RPUSH" -> "rpush"
      [] verb = "LRANGE" -> "lrange"
      [] verb = "HSET" -> "hset"
      [] verb = "HGET" -> "hget"
      [] verb = "HDEL" -> "hdel"
      [] verb = "HLEN" -> "hlen"
      [] verb = "HGETALL" -> "hgetall"
      [] verb = "SAVE" -> "save"

Recognized(word) == \E verb \in Verbs : word \in {verb, Small(verb)}

\* C21 (ParseSpec): a request that does not parse fails with UnknownCommand or
\* InvalidArgument; it fails with UnknownCommand exactly when it holds no word
\* or its first word is not one of the twelve verbs, so that a verb with a
\* malformed argument list (a bare LPUSH, RPUSH or HLEN and a SAVE with extra
\* words included) fails with InvalidArgument.
C21_ErrorTaxonomy ==
    LET parts == split_whitespace(from_utf8(request.buffer))
        parsed == request.parsed
    IN  request # NoRequest =>
            /\ ~parsed.ok => parsed.err.kind \in {"UnknownCommand", "InvalidArgument"}
            /\ (~parsed.ok /\ parsed.err.kind = "UnknownCommand")
                   <=> (parts = <<>> \/ ~Recognized(Head(parts)))

\* The request Serve has just taken fails: it does not parse, or it parses to
\* a command addressed at a key that holds a variant the command is not for.
RequestFails ==
    /\ budget' = budget - 1
    /\ LET parsed == request'.parsed
       IN  IF ~parsed.ok THEN TRUE
           ELSE \/ WrongVariant(storage, parsed.cmd)
                \/ /\ parsed.cmd.op = "Get"
                   /\ parsed.cmd.key \in DOMAIN storage.data
                   /\ storage.data[parsed.cmd.key].data.tag # "String"

\* C22 (ParseSpec): a request that fails to parse or fails with WRONGTYPE is
\* answered by one "(error)" line, leaves the keyspace and the dirty flag as
\* they were, and leaves the connection reading with the lock free, so that
\* its next request is served.
C22_ErrorsAreRequestScoped ==
    [][RequestFails =>
          /\ Len(resp'[Client]) = 1
          /\ resp'[Client][1].kind = "(error)"
          /\ storage' = storage
          /\ pc'[Client] = "read"
          /\ lock' = Unlocked]_vars

\* After a SET, an LPUSH at the same key has been refused with WRONGTYPE and
\* the connection is reading again.
C22_Witness ==
    /\ budget = 0
    /\ request.parsed.ok
    /\ request.parsed.cmd.op = "LPush"
    /\ resp[Client] = ErrorResp(WRONGTYPE)
    /\ pc[Client] = "read"

\* C23 (StorageSpec): the response execute_command renders for a command is
\* one line or more, whatever the command and whatever its key holds; an
\* LRANGE and an HGETALL that find nothing to list are no exception.
C23_ResponseHasALine ==
    \A cmd \in StorageCommands :
        LET r == execute_command(storage, cmd, now)
        IN  ~r.panicked => \A out \in r.out : Len(out) >= 1

\* What execute_command answers to cmd, and the storage it leaves.
Answers(cmd, out) ==
    LET r == execute_command(storage, cmd, now)
    IN  r.ok /\ ~r.panicked /\ r.out = {out} /\ r.st = storage

\* C24 (StorageSpec): at a key that is not in the map GET and HGET answer NIL,
\* LRANGE and HGETALL the empty-list line, HLEN and HDEL (integer) 0; HGET of a
\* field that an existing mapping does not have answers NIL; and none of them
\* changes the keyspace or the dirty flag.
C24_AbsenceIsNoError ==
    /\ \A key \in Keys \ DOMAIN storage.data :
          /\ Answers(Get(key), NilResp)
          /\ \A field \in Fields : Answers(HGet(key, field), NilResp)
          /\ \A start \in Indices, stop \in Indices :
                Answers(LRange(key, start, stop), EmptyListResp)
          /\ Answers(HGetAll(key), EmptyListResp)
          /\ Answers(HLen(key), IntResp(0))
          /\ \A fields \in ArgLists(Fields) : Answers(HDel(key, fields), IntResp(0))
    /\ \A key \in HashKeys :
          \A field \in Fields \ DOMAIN storage.data[key].data.hash :
              Answers(HGet(key, field), NilResp)

\* On the dump that holds a mapping and a scalar, an HGET has just answered
\* NIL for a field the mapping lacks, and the store is what was loaded.
C24_Witness ==
    /\ resp[Client] = NilResp
    /\ storage = load(file)
    /\ DOMAIN storage.data = Keys
    /\ \E key \in HashKeys : DOMAIN storage.data[key].data.hash = {"f"}

\* C25 (Spec): a connection takes up a request only when it is back at
\* socket.read with the response to its last request written; while it waits
\* for the lock or runs a command it has no response outstanding; it leaves
\* the wait only with the lock free; and with a response to write it does
\* nothing but write it.  So the commands of one connection run one after the
\* other, each on the storage the earlier ones left.
C25_OneRequestAtATime ==
    [][\A c \in Conns :
          /\ (pc[c] # "lock" /\ pc'[c] = "lock") => (pc[c] = "read" /\ resp[c] = NoResp)
          /\ pc[c] \in {"lock", "snap", "join"} => resp[c] = NoResp
          /\ (pc[c] = "lock" /\ pc'[c] # "lock") => lock = Unlocked
          /\ pc[c] = "write" =>
                \/ pc'[c] = "write" /\ resp'[c] = resp[c]
                \/ pc'[c] \in {"read", "closed"} /\ resp'[c] = NoResp]_vars

\* With no request left to send, a connection is about to answer
\* (integer) 2 to a push: the push ran on the list an earlier push left.
C25_Witness ==
    /\ budget = 0
    /\ \E c \in Conns : pc[c] = "write" /\ resp[c] = IntResp(2)

\* C26 (StorageSpec): for every mapping in the keyspace and every list of
\* fields, hdel returns the number of distinct named fields the mapping had (a
\* field named twice counts once, a field not there counts nothing); afterwards
\* the named fields are gone, the other fields hold what they held, hlen is
\* lower by the number returned, and every other key is as it was.
C26_HDelCount ==
    \A key \in HashKeys, fields \in ArgLists(Fields) :
        LET hash == storage.data[key].data.hash
            named == {fields[i] : i \in DOMAIN fields}
            r == hdel(storage, key, fields)
            left == r.st.data[key].data.hash
        IN  /\ r.ok
            /\ r.val = Cardinality(named \cap DOMAIN hash)
            /\ DOMAIN r.st.data = DOMAIN storage.data
            /\ r.st.data[key].data.tag = "Hash"
            /\ DOMAIN left = DOMAIN hash \ named
            /\ \A field \in DOMAIN left : left[field] = hash[field]
            /\ hlen(r.st, key).val = hlen(storage, key).val - r.val
            /\ \A k \in DOMAIN storage.data \ {key} : r.st.data[k] = storage.data[k]
            /\ execute_command(storage, HDel(key, fields), now).out = {IntResp(r.val)}

\* On the dump that holds a mapping of one field, an HDEL has just answered
\* (integer) 1 and the mapping is empty; nothing else has touched the store.
C26_Witness ==
    /\ file # NoFile
    /\ resp[Client] = IntResp(1)
    /\ ~storage.dirty
    /\ \E key \in HashKeys :
          /\ load(file).data[key].data.tag = "Hash"
          /\ DOMAIN storage.data[key].data.hash = {}

\* C27 (StorageSpec): whatever command other than SET and DEL is executed,
\* successful or failing, every key of the keyspace still holds a value of the
\* variant it held, except a scalar that the command, a GET of that key, has
\* evicted; a key holds another variant only after a SET of it, or after it
\* was deleted or evicted and made again.
C27_VariantIsStable ==
    \A cmd \in StorageCommands :
        cmd.op \notin {"Set", "Del"} =>
            LET r == execute_command(storage, cmd, now)
                evicted == IF cmd.op = "Get" /\ ~get(storage, cmd.key, now).some
                           THEN {cmd.key} ELSE {}
            IN  /\ ~r.panicked
                /\ DOMAIN storage.data \ evicted \subseteq DOMAIN r.st.data
                /\ \A k \in DOMAIN storage.data \ evicted :
                      r.st.data[k].data.tag = storage.data[k].data.tag

\* On the dump that holds a scalar and a mapping, a command has just been
\* refused with WRONGTYPE, and both are still what they were.
C27_Witness ==
    /\ resp[Client] = ErrorResp(WRONGTYPE)
    /\ storage = load(file)
    /\ \E key \in DOMAIN storage.data :
          /\ storage.data[key].data.tag = "String"
          /\ \A k \in DOMAIN storage.data \ {key} : storage.data[k].data.tag = "Hash"

\* The scalars whose stored expiry has passed and which are still in the map.
ExpiredScalars ==
    {k \in DOMAIN storage.data :
        /\ storage.data[k].data.tag = "String"
        /\ storage.data[k].expiry # None
        /\ as_u64(as_millis(now)) >= storage.data[k].expiry}

Refused(cmd) ==
    LET r == execute_command(storage, cmd, now)
    IN  ~r.ok /\ ~r.panicked /\ r.out = {ErrorResp(WRONGTYPE)} /\ r.st = storage

\* C28 (StorageSpec): while a scalar whose expiry has passed is still in the
\* map, every lpush, rpush, lrange, hset, hget, hdel, hlen and hgetall at its key
\* is refused with WRONGTYPE and leaves it there, and a delete removes it as
\* it removes any entry; a get of the key finds nothing and takes it out, and
\* then the same lpush and rpush succeed and make a new list of the pushed
\* values, with no expiry.
C28_OnlyGetExpires ==
    \A key \in ExpiredScalars :
        /\ \A values \in ArgLists(Values) :
              Refused(LPush(key, values)) /\ Refused(RPush(key, values))
        /\ \A start \in Indices, stop \in Indices : Refused(LRange(key, start, stop))
        /\ \A field \in Fields :
              /\ Refused(HGet(key, field))
              /\ \A value \in Values : Refused(HSet(key, field, value))
        /\ \A fields \in ArgLists(Fields) : Refused(HDel(key, fields))
        /\ Refused(HLen(key)) /\ Refused(HGetAll(key))
        /\ remove(storage, key).some /\ remove(storage, key).val = storage.data[key]
        /\ LET g == get(storage, key, now)
           IN  /\ ~g.some
               /\ key \notin DOMAIN g.st.data
               /\ \A values \in ArgLists(Values) :
                     LET l == lpush(g.st, key, values)
                         r == rpush(g.st, key, values)
                     IN  /\ l.ok /\ l.val = Len(values)
                         /\ l.st.data[key] = StoreValue(ListV(Reversed(values)), None)
                         /\ r.ok /\ r.val = Len(values)
                         /\ r.st.data[key] = StoreValue(ListV(values), None)

\* On the dump that holds a scalar with an expiry: the expiry has passed, the
\* scalar is still in the map, nothing has changed the store, and the last
\* answer was a WRONGTYPE refusal.
C28_Witness ==
    /\ ExpiredScalars # {}
    /\ storage = load(file)
    /\ resp[Client] = ErrorResp(WRONGTYPE)

\* C29 (Spec): whenever the dirty flag is false and no snapshot cycle is
\* between its clear_dirty_flag and its join, the keyspace is what the dump
\* holds, the dump being the last snapshot that was written in full, or what
\* the server started from when none was written.
C29_CleanMeansPersisted ==
    (/\ ~storage.dirty
     /\ \A p \in Procs : bpc[p] = "none"
     /\ file # Truncated)
        => storage.data = load(file).data

\* C30 (StorageSpec): for every number of seconds a SET can carry after EX,
\* the SET is answered OK and stores as expiry the millisecond of now plus
\* 1000 times the seconds, exactly, and a get at any instant before that
\* millisecond returns the value.
C30_ExpiryExact ==
    \A key \in Keys, value \in Values, secs \in Expiries \ {None} :
        LET r == execute_command(storage, Set(key, value, secs), now)
            due == as_millis(now) + MsPerSec * secs
        IN  /\ ~r.panicked
            /\ r.ok /\ r.out = {OkResp}
            /\ r.st.data[key].expiry = due
            /\ \A t \in Instants :
                  (t >= now /\ as_millis(t) < due) =>
                      LET g == get(r.st, key, t)
                      IN  g.some /\ g.val.data = StringV(value)

\* The step is a set of key that did not panic.
IsSetOf(key) ==
    \E value \in Values, expiry \in Expiries :
        /\ ~set_panics(expiry, now)
        /\ storage' = set(storage, key, value, expiry, now)

\* C31 (StorageSpec): before and after every step each entry that carries an
\* expiry is a scalar; an entry that is new, or whose expiry is not what it
\* was, with an expiry or at a key that had one, was stored by a set of that
\* key in this step, with the expiry that set computes; a new list or mapping
\* has no expiry; and a key that a get evicts holds a scalar.
C31_OnlyScalarsExpire ==
    [][/\ \A k \in DOMAIN storage.data :
             /\ storage.data[k].expiry # None => storage.data[k].data.tag = "String"
             /\ k \notin DOMAIN get(storage, k, now).st.data
                   => storage.data[k].data.tag = "String"
       /\ \A k \in DOMAIN storage'.data :
             LET e == storage'.data[k]
                 fresh == k \notin DOMAIN storage.data
             IN  /\ e.expiry # None => e.data.tag = "String"
                 /\ (fresh /\ e.data.tag # "String") => e.expiry = None
                 /\ (fresh /\ e.expiry # None) => IsSetOf(k)
                 /\ (~fresh /\ e.expiry # storage.data[k].expiry) => IsSetOf(k)]_vars

\* From an empty store, between them the keys hold a scalar with an expiry,
\* put there by a SET with EX, and a list, which has none.
C31_Witness ==
    /\ file = NoFile
    /\ \E k \in DOMAIN storage.data :
          storage.data[k].data.tag = "String" /\ storage.data[k].expiry # None
    /\ \E k \in DOMAIN storage.data :
          storage.data[k].data.tag = "List" /\ storage.data[k].expiry = None

\* C32 (StorageSpec): an hdel that names every field of a mapping leaves the
\* key in the map with an empty mapping: hlen returns 0, hgetall returns the
\* mapping, with no entry, and is not answered as for an absent key, lpush
\* and rpush at the key are refused with WRONGTYPE, and they succeed once the
\* key was deleted, as a set of the key does.
C32_EmptyMappingStays ==
    \A key \in HashKeys, fields \in ArgLists(Fields) :
        LET hash == storage.data[key].data.hash
            r == hdel(storage, key, fields)
        IN  (DOMAIN hash # {} /\ DOMAIN hash \subseteq {fields[i] : i \in DOMAIN fields}) =>
                /\ r.ok /\ r.val = Cardinality(DOMAIN hash)
                /\ key \in DOMAIN r.st.data
                /\ r.st.data[key].data = HashV(EmptyMap)
                /\ hlen(r.st, key) = Ok(r.st, 0)
                /\ hgetall(r.st, key) = Ok(r.st, EmptyMap)
                /\ execute_command(r.st, HGetAll(key), now).out # {EmptyListResp}
                /\ \A values \in ArgLists(Values) :
                      /\ lpush(r.st, key, values) = Err(r.st, WRONGTYPE)
                      /\ rpush(r.st, key, values) = Err(r.st, WRONGTYPE)
                      /\ lpush(remove(r.st, key).st, key, values).ok
                      /\ rpush(remove(r.st, key).st, key, values).ok
                /\ \A value \in Values :
                      set(r.st, key, value, None, now).data[key].data = StringV(value)

\* From an empty store, a mapping was made and emptied again, its key is
\* still there, and a command on it has just answered (integer) 0.
C32_Witness ==
    /\ file = NoFile
    /\ resp[Client] = IntResp(0)
    /\ \E key \in Keys :
          storage.data = [k \in {key} |-> StoreValue(HashV(EmptyMap), None)]

\* C33 (ReadSpec): lrange, hget, hlen, hgetall, and get of a key that is absent
\* or has not expired, return the storage as they found it, keyspace and
\* dirty flag; and while the clients of a server started on a dump send only
\* these, no step changes the storage or the file and save_snapshot never
\* spawns a writer.
C33_ReadsHaveNoEffect ==
    [][/\ \A cmd \in StorageCommands :
             (/\ cmd.op \in ReadOps
              /\ cmd.op = "Get" => (cmd.key \notin DOMAIN storage.data
                                    \/ get(storage, cmd.key, now).some))
                 => execute_command(storage, cmd, now).st = storage
       /\ storage' = storage
       /\ ~storage'.dirty
       /\ file' = file
       /\ \A p \in Procs : bpc'[p] = "none"]_vars

\* On a dump, with every request sent, a connection is about to write what
\* HLEN found in the dump's mapping while the timer is in save_snapshot.
C33_Witness ==
    /\ budget = 0
    /\ pc[Timer] = "snap"
    /\ storage = load(file)
    /\ \E c \in Conns : pc[c] = "write" /\ resp[c] = IntResp(1)

====
